---- MODULE Spec2Model ----
(***************************************************************************)
(* Model of the benchmarking tool's orchestration core:                    *)
(*   - the worker registry kept in Redis sets (celery_app.py, Worker),     *)
(*   - the worker process serving its private queue (Worker.start_worker,  *)
(*     run_benchmark),                                                     *)
(*   - the coordinator (coordinator.py, Coordinator).                      *)
(***************************************************************************)
EXTENDS Naturals, Integers, Sequences, FiniteSets, TLC

(***************************************************************************)
(* Bounds of the model.                                                    *)
(***************************************************************************)
MaxMsgs == 2        \* messages the broker accepts over a run
MaxCpus == 2        \* largest CPU count of a worker host
MaxClock == 2       \* hours the clock runs
MaxTriggers == 2    \* trigger_benchmark() invocations recorded

None == "None"
NoWave == 0          \* last_wave_id = None
SchedulePeriod == 2  \* the schedule points are two hours apart

Procs == {"p1", "p2"}                     \* worker processes
Ids == {"w1", "w2"}                       \* worker ids (hostnames)
Groups == {"A", "workers_A"}              \* group names given on the CLI
Filenames == {"job.ini"}
GroupLists == {<<"A">>, <<"workers_A", "A">>}

VARIABLES
    store,      \* Redis: key -> set of members
    wobj,       \* per worker process: the Worker object and its life cycle
    queue,      \* broker: queue name -> sequence of messages
    sent,       \* number of messages the broker has accepted
    inflight,   \* per worker process: messages being executed by its pool
    done,       \* results written to the result backend
    coord,      \* the Coordinator object and its run() loop
    calls,      \* trigger_benchmark() invocations so far: wave id and outcome
    now,        \* wall clock, in hours
    last,       \* the operation that produced this state, with its outcome
    redis_up,   \* whether the Redis server is reachable
    config,     \* the FioConfig object and the outcome of the last call on it
    result,     \* the FioResult object and the outcome of the last call on it
    fio,        \* the Fio objects
    files,      \* the temporary directories and the file fio.ini in each
    runs        \* the position and the locals of each thread's Fio.run call

vars ==
    <<store, wobj, queue, sent, inflight, done, coord, calls, now, last, redis_up,
      config, result, fio, files, runs>>

(***************************************************************************)
(* Redis sets.                                                             *)
(***************************************************************************)
\* f"workers_{self.worker_group}"
Prefix(g) == "workers_" \o g

StoreKeys == Groups \cup {Prefix(g) : g \in Groups}

\* redis-py sends a str as its UTF-8 bytes; Redis stores and returns bytes.
Encode(str) == <<"bytes", str>>

\* bytes.decode()
Decode(b) == b[2]

\* r.sadd(key, member)
SAdd(s, key, member) == [s EXCEPT ![key] = @ \cup {Encode(member)}]

\* r.srem(key, member)
SRem(s, key, member) == [s EXCEPT ![key] = @ \ {Encode(member)}]

\* r.smembers(key)
SMembers(s, key) == s[key]

\* What a command of the client self.r raises: nothing when the server answers,
\* redis.exceptions.ConnectionError when it cannot be reached.
redis_raises(up) == IF up THEN None ELSE "ConnectionError"

\* The key registration writes: self.r.sadd(self.worker_group, ...)
RegisterKey(g) == g

\* The key __del__ removes from: self.r.srem(f"workers_{self.worker_group}", ...)
UnregisterKey(g) == Prefix(g)

\* Worker.get_workers(worker_group)
get_workers(s, g) == SMembers(s, g)

(***************************************************************************)
(* The Worker object of a worker process.                                  *)
(***************************************************************************)
NewWorker ==
    [st |-> "created", worker_group |-> None, worker_id |-> None, conc |-> 0,
     reg |-> FALSE]     \* reg: a register_worker call on this object has returned

\* `last` observes the operation that led to the state: its name, the (group, id)
\* it ran with, what it raised and, for trigger_benchmark(), what the invocation
\* saw and built (NoCall for every other operation).
NoCall ==
    [wave_id |-> NoWave, groups |-> <<>>, configured |-> FALSE, snapshot |-> <<>>,
     up |-> TRUE]

Op(o, g, w, r) == [op |-> o, group |-> g, id |-> w, raised |-> r, call |-> NoCall]

OpCall(o, r, c) == [op |-> o, group |-> None, id |-> None, raised |-> r, call |-> c]

NoOp == Op("init", None, None, None)

FioUnchanged == UNCHANGED <<config, result, fio, files, runs>>
CoordUnchanged == UNCHANGED <<coord, calls, now, redis_up>> /\ FioUnchanged
BrokerUnchanged == UNCHANGED <<queue, sent, inflight, done>>

\* A worker process starts: the module-level `worker = Worker()`.
WorkerInit(p) ==
    /\ wobj[p].st = "gone"
    /\ wobj' = [wobj EXCEPT ![p] = NewWorker]
    /\ last' = Op("Worker", None, None, None)
    /\ UNCHANGED store
    /\ BrokerUnchanged /\ CoordUnchanged

\* A registration that rejects an id its group already holds (sadd replies 0).
register_raises_duplicate(s, g, w) ==
    IF Encode(w) \in SMembers(s, RegisterKey(g)) THEN "ValueError" ELSE None

\* What register_worker raises: the reply of sadd is dropped, nothing is raised.
register_raises(s, g, w) == None

\* Worker.register_worker(worker_group, worker_id)
register_worker(p, g, w) ==
    /\ wobj[p].st \in {"created", "registered"}
    /\ IF redis_raises(redis_up) = None
       THEN /\ wobj' = [wobj EXCEPT ![p] = [@ EXCEPT !.st = "registered",
                                                    !.worker_group = g,
                                                    !.worker_id = w,
                                                    !.reg = TRUE]]
            /\ store' = SAdd(store, RegisterKey(g), w)
            /\ last' = Op("register_worker", g, w, register_raises(store, g, w))
       ELSE \* the fields are assigned, then sadd raises
            /\ wobj' = [wobj EXCEPT ![p] = [@ EXCEPT !.worker_group = g,
                                                    !.worker_id = w]]
            /\ store' = store
            /\ last' = Op("register_worker", g, w, redis_raises(redis_up))
    /\ BrokerUnchanged /\ CoordUnchanged

\* An unregistration that rejects an id its set does not hold (as set.remove does).
unregister_raises_missing(s, g, w) ==
    IF Encode(w) \in SMembers(s, UnregisterKey(g)) THEN None ELSE "KeyError"

\* What the srem of __del__ raises: its reply is dropped, nothing is raised.
unregister_raises(s, g, w) == None

\* Worker.__del__: the process ends and the Worker object is finalized.
Worker_del(p) ==
    /\ wobj[p].st # "gone"
    /\ LET g == wobj[p].worker_group
           w == wobj[p].worker_id
       IN IF g # None /\ w # None
          THEN IF redis_raises(redis_up) = None
               THEN /\ store' = SRem(store, UnregisterKey(g), w)
                    /\ last' = Op("__del__", g, w, unregister_raises(store, g, w))
               ELSE /\ store' = store
                    /\ last' = Op("__del__", g, w, redis_raises(redis_up))
          ELSE /\ store' = store
               /\ last' = Op("__del__", None, None, None)
    /\ wobj' = [wobj EXCEPT ![p] = [@ EXCEPT !.st = "gone"]]
    /\ inflight' = [inflight EXCEPT ![p] = {}]
    /\ UNCHANGED <<queue, sent, done>>
    /\ CoordUnchanged

\* The process is killed: no finalizer runs.
WorkerKilled(p) ==
    /\ wobj[p].st # "gone"
    /\ wobj' = [wobj EXCEPT ![p] = [@ EXCEPT !.st = "gone"]]
    /\ inflight' = [inflight EXCEPT ![p] = {}]
    /\ last' = Op("killed", wobj[p].worker_group, wobj[p].worker_id, None)
    /\ UNCHANGED <<store, queue, sent, done>>
    /\ CoordUnchanged

\* The Redis server becomes unreachable.
RedisOutage ==
    /\ redis_up
    /\ redis_up' = FALSE
    /\ last' = Op("outage", None, None, None)
    /\ UNCHANGED <<store, wobj, coord, calls, now>>
    /\ BrokerUnchanged /\ FioUnchanged

\* The Redis server is reachable again.
RedisRecovery ==
    /\ ~redis_up
    /\ redis_up' = TRUE
    /\ last' = Op("recovery", None, None, None)
    /\ UNCHANGED <<store, wobj, coord, calls, now>>
    /\ BrokerUnchanged /\ FioUnchanged

(***************************************************************************)
(* Serving: the Celery worker bound to the queue named by the worker id.   *)
(***************************************************************************)
\* The pool size of `worker_main(["worker", "--loglevel=info", "-E", "-Q", id])`:
\* no --concurrency is passed, so Celery takes the host's CPU count.
PoolSizes == 1 .. MaxCpus

\* The pool takes a message whenever one of its processes is free.
CanFetch(p) == Cardinality(inflight[p]) < wobj[p].conc

\* run_benchmark.s(filename=..., wave_id=..., timestamp=...).set(queue=...)
Signature(n, filename, wave_id, timestamp, q) ==
    [n |-> n, filename |-> filename, wave_id |-> wave_id, timestamp |-> timestamp,
     queue |-> q]

\* A start that does not look at the worker's identity.
start_raises_never(w) == None

\* What start_worker raises before it hands over to Celery.
start_raises(w) == IF w.worker_id = None THEN "ValueError" ELSE None

\* Worker.start_worker()
start_worker(p) ==
    /\ wobj[p].st \in {"created", "registered"}
    /\ IF start_raises(wobj[p]) # None
       THEN /\ wobj' = wobj
            /\ last' = Op("start_worker", None, None, start_raises(wobj[p]))
       ELSE /\ \E c \in PoolSizes :
                 wobj' = [wobj EXCEPT ![p] = [@ EXCEPT !.st = "serving", !.conc = c]]
            /\ last' = Op("start_worker", wobj[p].worker_group, wobj[p].worker_id, None)
    /\ UNCHANGED store
    /\ BrokerUnchanged /\ CoordUnchanged

\* A client of the broker sends celery_app.run_benchmark to queue q.
BrokerPublish(q) ==
    /\ sent < MaxMsgs
    /\ sent' = sent + 1
    /\ queue' = [queue EXCEPT ![q] = Append(@, Signature(sent + 1, None, NoWave, 0, q))]
    /\ last' = Op("publish", None, q, None)
    /\ UNCHANGED <<store, wobj, inflight, done>>
    /\ CoordUnchanged

\* The worker consumes the head of the queue named by its id (-Q worker_id).
WorkerFetch(p) ==
    /\ wobj[p].st = "serving"
    /\ queue[wobj[p].worker_id] # <<>>
    /\ CanFetch(p)
    /\ inflight' = [inflight EXCEPT ![p] = @ \cup {Head(queue[wobj[p].worker_id])}]
    /\ queue' = [queue EXCEPT ![wobj[p].worker_id] = Tail(@)]
    /\ last' = Op("fetch", wobj[p].worker_group, wobj[p].worker_id, None)
    /\ UNCHANGED <<store, wobj, sent, done>>
    /\ CoordUnchanged

\* run_benchmark(): the task body raises NotImplementedError.
run_benchmark(p, m) ==
    /\ m \in inflight[p]
    /\ inflight' = [inflight EXCEPT ![p] = @ \ {m}]
    /\ done' = done \cup {[msg |-> m, status |-> "FAILURE"]}
    /\ last' = Op("run_benchmark", wobj[p].worker_group, wobj[p].worker_id,
                  "NotImplementedError")
    /\ UNCHANGED <<store, wobj, queue, sent>>
    /\ CoordUnchanged

(***************************************************************************)
(* The Coordinator.                                                        *)
(***************************************************************************)
Unset == <<None>>     \* an attribute no setter has assigned yet

\* Coordinator.__init__
NewCoordinator ==
    [last_wave_id |-> NoWave, worker_groups |-> Unset, filename |-> None,
     run |-> "idle", sched |-> 0]

\* One wave id for the life of the coordinator.
uuid4_once(n) == 1

\* str(uuid.uuid4()), n ids having been drawn before: a fresh id.
uuid4(n) == n + 1

\* Coordinator.__log_progress: raises NotImplementedError.
log_progress == "NotImplementedError"

\* trigger_benchmark, after __log_progress: one fan-out group per worker group,
\* one signature per member of the group's registry set, routed to queue = id.
FanOutGroups(c, s, wave_id, t) ==
    [i \in 1 .. Len(c.worker_groups) |->
        {Signature(0, c.filename, wave_id, t, Decode(b)) :
            b \in get_workers(s, c.worker_groups[i])}]

\* A trigger that stores the wave id before it logs the progress.
trigger_benchmark_storing_first(c, s, up, n, t) ==
    [raised |-> log_progress, wave_id |-> uuid4(n),
     last_wave_id |-> uuid4(n), groups |-> <<>>]

\* Coordinator.trigger_benchmark(): its outcome on coordinator c, registry s
\* (reachable or not), with n uuids drawn before, at time t.
trigger_benchmark(c, s, up, n, t) ==
    LET wave_id == uuid4(n)
    IN IF log_progress # None
       THEN [raised |-> log_progress, wave_id |-> wave_id,
             last_wave_id |-> c.last_wave_id, groups |-> <<>>]
       ELSE IF c.worker_groups = Unset
       THEN [raised |-> "AttributeError", wave_id |-> wave_id,
             last_wave_id |-> wave_id, groups |-> <<>>]
       ELSE IF Len(c.worker_groups) > 0 /\ redis_raises(up) # None
       THEN [raised |-> redis_raises(up), wave_id |-> wave_id,
             last_wave_id |-> wave_id, groups |-> <<>>]
       ELSE LET groups == FanOutGroups(c, s, wave_id, t)
            IN IF c.filename = None /\ \E i \in DOMAIN groups : groups[i] # {}
               THEN [raised |-> "AttributeError", wave_id |-> wave_id,
                     last_wave_id |-> wave_id, groups |-> <<>>]
               ELSE [raised |-> None, wave_id |-> wave_id,
                     last_wave_id |-> wave_id, groups |-> groups]

\* chain(*groups).apply_async(): the first fan-out group goes to the broker, the
\* later ones travel with it as its continuation.
apply_async(q, groups) ==
    IF groups = <<>> THEN q
    ELSE [name \in DOMAIN q |->
            IF \E sig \in groups[1] : sig.queue = name
            THEN Append(q[name], CHOOSE sig \in groups[1] : sig.queue = name)
            ELSE q[name]]

\* The registry sets of the configured groups when trigger_benchmark is called.
Snapshot(c, s) ==
    IF c.worker_groups = Unset THEN <<>>
    ELSE [i \in 1 .. Len(c.worker_groups) |-> get_workers(s, c.worker_groups[i])]

\* What one trigger_benchmark() invocation saw and built.
Call(c, s, up, r) ==
    [wave_id |-> r.wave_id, groups |-> r.groups,
     configured |-> c.worker_groups # Unset /\ c.filename # None,
     snapshot |-> Snapshot(c, s), up |-> up]

\* The entry of `calls` for an invocation: its wave id, what it raised, whether the
\* coordinator was configured, whether Redis was reachable and whether every
\* configured group's registry set was empty.
CallEntry(c, s, up, r) ==
    [wave_id |-> r.wave_id, raised |-> r.raised,
     configured |-> c.worker_groups # Unset /\ c.filename # None,
     up |-> up,
     empty |-> \A i \in DOMAIN Snapshot(c, s) : Snapshot(c, s)[i] = {}]

WorkersUnchanged ==
    UNCHANGED <<store, wobj, sent, inflight, done, redis_up>> /\ FioUnchanged

\* Coordinator.set_worker_groups(worker_groups)
set_worker_groups(gs) ==
    /\ coord.run = "idle"
    /\ coord' = [coord EXCEPT !.worker_groups = gs]
    /\ last' = Op("set_worker_groups", None, None, None)
    /\ UNCHANGED <<calls, now, queue>>
    /\ WorkersUnchanged

\* Coordinator.set_filename(filename)
set_filename(f) ==
    /\ coord.run = "idle"
    /\ coord' = [coord EXCEPT !.filename = f]
    /\ last' = Op("set_filename", None, None, None)
    /\ UNCHANGED <<calls, now, queue>>
    /\ WorkersUnchanged

\* coordinator.trigger_benchmark() called directly (trigger-and-exit).
TriggerCall ==
    /\ coord.run # "looping"
    /\ Len(calls) < MaxTriggers
    /\ LET r == trigger_benchmark(coord, store, redis_up, Len(calls), now)
       IN /\ coord' = [coord EXCEPT !.last_wave_id = r.last_wave_id]
          /\ calls' = Append(calls, CallEntry(coord, store, redis_up, r))
          /\ queue' = apply_async(queue, r.groups)
          /\ last' = OpCall("trigger_benchmark", r.raised, Call(coord, store, redis_up, r))
    /\ UNCHANGED now
    /\ WorkersUnchanged

\* The first schedule point after t: every day at 00:00, 02:00, ..., 22:00.
NextSchedule(t) == t + SchedulePeriod - (t % SchedulePeriod)

\* Coordinator.run(): installs the schedule and enters the loop.
Coordinator_run ==
    /\ coord.run = "idle"
    /\ coord' = [coord EXCEPT !.run = "looping", !.sched = NextSchedule(now)]
    /\ last' = Op("run", None, None, None)
    /\ UNCHANGED <<calls, now, queue>>
    /\ WorkersUnchanged

\* schedule.run_pending() with a job due: the job is trigger_benchmark, and an
\* exception it raises leaves run_pending() and run().
run_pending ==
    /\ coord.run = "looping"
    /\ now >= coord.sched
    /\ Len(calls) < MaxTriggers
    /\ LET r == trigger_benchmark(coord, store, redis_up, Len(calls), now)
       IN /\ coord' = [coord EXCEPT !.last_wave_id = r.last_wave_id,
                                    !.run = IF r.raised # None THEN "raised" ELSE @,
                                    !.sched = IF r.raised # None THEN @
                                              ELSE @ + SchedulePeriod]
          /\ calls' = Append(calls, CallEntry(coord, store, redis_up, r))
          /\ queue' = apply_async(queue, r.groups)
          /\ last' = OpCall("run_pending", r.raised, Call(coord, store, redis_up, r))
    /\ UNCHANGED now
    /\ WorkersUnchanged

\* time.sleep(1): time passes.
Tick ==
    /\ now < MaxClock
    /\ now' = now + 1
    /\ last' = Op("sleep", None, None, None)
    /\ UNCHANGED <<coord, calls, queue>>
    /\ WorkersUnchanged

(***************************************************************************)
(* Python values of the fio module: None, str (a sequence of characters),  *)
(* int, and the containers built from them.                                *)
(***************************************************************************)
PyNone == <<None>>
PyStr(chars) == <<"str", chars>>
PyInt(n) == <<"int", n>>

Digits == <<"0", "1", "2", "3", "4", "5", "6", "7", "8", "9">>
IsDigit(c) == \E i \in DOMAIN Digits : Digits[i] = c
DigitValue(c) == (CHOOSE i \in DOMAIN Digits : Digits[i] = c) - 1

RECURSIVE DecimalValue(_)
DecimalValue(chars) ==
    IF chars = <<>> THEN 0
    ELSE 10 * DecimalValue(SubSeq(chars, 1, Len(chars) - 1))
             + DigitValue(chars[Len(chars)])

\* int(v): an int is returned as it is, a str is parsed as a decimal literal and
\* raises ValueError when it is not one.
int(v) ==
    IF v[1] = "int" THEN [raised |-> None, value |-> v[2]]
    ELSE IF v[1] = "str" /\ v[2] # <<>> /\ \A i \in DOMAIN v[2] : IsDigit(v[2][i])
    THEN [raised |-> None, value |-> DecimalValue(v[2])]
    ELSE [raised |-> IF v[1] = "str" THEN "ValueError" ELSE "TypeError", value |-> 0]

\* `v or d`: d when v is falsy (None, the empty str, 0).
or(v, d) == IF v = PyNone \/ v = PyStr(<<>>) \/ v = PyInt(0) THEN d ELSE v

(***************************************************************************)
(* FioConfig: the parsed INI document of a job file.                       *)
(***************************************************************************)
\* The values a job file gives to a key: nothing after the key (the parser's
\* items() gives ""), a number of seconds, or a duration with a unit.
ConfigValues == {<<>>, <<"3", "0">>, <<"5">>, <<"3", "0", "s">>}

\* A key of a section: left out (<<>>) or given with one of the values.
Options == {<<>>} \cup {<<v>> : v \in ConfigValues}

\* config.items(section) of a section with these options, in file order.
Items(ramp_time, runtime) ==
    [i \in 1 .. Len(ramp_time) |-> <<"ramp_time", PyStr(ramp_time[1])>>]
        \o [i \in 1 .. Len(runtime) |-> <<"runtime", PyStr(runtime[1])>>]

ItemLists == {Items(r, t) : r \in Options, t \in Options}

Section(name, items) == [name |-> name, items |-> items]

\* The job files: an optional [global] section, [job1], and an optional [job2]
\* that sets at most its runtime.
Documents ==
    {g \o <<Section("job1", j1)>> \o j2 :
        g \in {<<>>} \cup {<<Section("global", i)>> : i \in ItemLists},
        j1 \in ItemLists,
        j2 \in {<<>>} \cup {<<Section("job2", Items(<<>>, t))>> : t \in Options}}

ConfigKeys == {"ramp_time", "runtime"}

NoConfig == [doc |-> <<>>, op |-> "none", section |-> None, key |-> None,
             raised |-> None, value |-> PyNone]

\* self.config.sections()
sections(doc) == [i \in DOMAIN doc |-> doc[i].name]

\* FioConfig.get_sections()
get_sections(doc) == SelectSeq(sections(doc), LAMBDA n : n # "global")

\* FioConfig.get_section(section): config.items(section), NoSectionError when the
\* document has no such section.
get_section(doc, section) ==
    IF \E i \in DOMAIN doc : doc[i].name = section
    THEN [raised |-> None,
          value |-> doc[CHOOSE i \in DOMAIN doc : doc[i].name = section].items]
    ELSE [raised |-> "NoSectionError", value |-> <<>>]

\* FioConfig.get_globals()
get_globals(doc) == get_section(doc, "global")

\* FioConfig.search_tuple_list(arr, key): the value of the first tuple with the key.
search_tuple_list(arr, key) ==
    IF \E i \in DOMAIN arr : arr[i][1] = key
    THEN arr[CHOOSE i \in DOMAIN arr :
                 /\ arr[i][1] = key
                 /\ \A j \in 1 .. i - 1 : arr[j][1] # key][2]
    ELSE PyNone

\* FioConfig.get_config_value(section, key)
get_config_value(doc, section, key) ==
    LET s == get_section(doc, section)
        g == get_globals(doc)
    IN IF s.raised # None THEN [raised |-> s.raised, value |-> PyNone]
       ELSE IF g.raised # None THEN [raised |-> g.raised, value |-> PyNone]
       ELSE LET job_value == search_tuple_list(s.value, key)
                global_value == search_tuple_list(g.value, key)
            IN [raised |-> None,
                value |-> IF job_value # PyNone THEN job_value ELSE global_value]

\* int(self.get_config_value(section, key) or 0)
IntOfConfigValue(doc, section, key) ==
    LET v == get_config_value(doc, section, key)
    IN IF v.raised # None THEN [raised |-> v.raised, value |-> 0]
       ELSE int(or(v.value, PyInt(0)))

\* The body of the loop of get_job_runtime for one section.
SectionRuntime(doc, section) ==
    LET r == IntOfConfigValue(doc, section, "ramp_time")
        t == IntOfConfigValue(doc, section, "runtime")
    IN IF r.raised # None THEN r
       ELSE IF t.raised # None THEN t
       ELSE [raised |-> None, value |-> r.value + t.value]

\* FioConfig.get_job_runtime(): the (section, seconds) pairs in file order, or the
\* exception of the first section that raises.
get_job_runtime(doc) ==
    LET names == get_sections(doc)
        rt == [i \in DOMAIN names |-> SectionRuntime(doc, names[i])]
    IN IF \E i \in DOMAIN rt : rt[i].raised # None
       THEN [raised |-> rt[CHOOSE i \in DOMAIN rt :
                               /\ rt[i].raised # None
                               /\ \A j \in 1 .. i - 1 : rt[j].raised = None].raised,
             value |-> <<>>]
       ELSE [raised |-> None,
             value |-> [i \in DOMAIN names |-> <<names[i], rt[i].value>>]]

RECURSIVE sum(_)
sum(values) == IF values = <<>> THEN 0 ELSE Head(values) + sum(Tail(values))

\* The TOTAL row of print_job_runtime: sum(self.get_job_runtime().values())
total_runtime(doc) ==
    LET r == get_job_runtime(doc)
    IN IF r.raised # None THEN [raised |-> r.raised, value |-> 0]
       ELSE [raised |-> None, value |-> sum([i \in DOMAIN r.value |-> r.value[i][2]])]

(***************************************************************************)
(* FioResult: the document fio prints, as json.loads returns it. A dict is *)
(* the sequence of its (key, value) pairs in insertion order.              *)
(***************************************************************************)
PyFloat(n, d) == <<"float", n, d>>      \* the float n / 10^d
PyDict(pairs) == <<"dict", pairs>>
PyList(elems) == <<"list", elems>>

\* FioResult.NO_RESULT_STRING
NO_RESULT_STRING == PyStr(<<"-", "-", "-">>)

\* A string built by a formatter is the sequence of its parts: a str, or a number
\* put into text by the named formatter. `rendered + chars` extends the last str.
Fmt(format, v) == <<"fmt", format, v>>

Plus(rendered, chars) ==
    IF rendered[Len(rendered)][1] = "str"
    THEN [rendered EXCEPT ![Len(rendered)] = PyStr(@[2] \o chars)]
    ELSE Append(rendered, PyStr(chars))

\* d.get(key, None)
dict_get(d, key) ==
    IF d[1] # "dict" THEN [raised |-> "AttributeError", value |-> PyNone]
    ELSE IF \E i \in DOMAIN d[2] : d[2][i][1] = key
    THEN [raised |-> None,
          value |-> d[2][CHOOSE i \in DOMAIN d[2] : d[2][i][1] = key][2]]
    ELSE [raised |-> None, value |-> PyNone]

\* FioResult.safe_get(d, keys, default)
RECURSIVE safe_get(_, _, _)
safe_get(d, keys, default) ==
    IF keys = <<>> THEN [raised |-> None, value |-> d]
    ELSE LET e == dict_get(d, Head(keys))
         IN IF e.raised # None THEN e
            ELSE IF e.value = PyNone THEN [raised |-> None, value |-> default]
            ELSE safe_get(e.value, Tail(keys), default)

\* isinstance(v, int) and isinstance(v, (int, float)); a bool is an int.
IsInt(v) == v[1] \in {"int", "bool"}
IsIntOrFloat(v) == v[1] \in {"int", "bool", "float"}

\* FioResult.__humanize_bytes(value)
humanize_bytes(v) ==
    IF IsInt(v) THEN <<Fmt("naturalsize", v)>> ELSE <<NO_RESULT_STRING>>

\* FioResult.__humanize_time_ns(value)
humanize_time_ns(v) ==
    IF IsIntOrFloat(v) THEN <<Fmt("naturaldelta", v)>> ELSE <<NO_RESULT_STRING>>

\* f"{v:<spec>}" with a float presentation type: ValueError for a str, TypeError for
\* a container.
format_f(spec, v) ==
    IF IsIntOrFloat(v) THEN [raised |-> None, value |-> <<Fmt(spec, v)>>]
    ELSE [raised |-> IF v[1] = "str" THEN "ValueError" ELSE "TypeError",
          value |-> <<>>]

\* humanize.precisedelta(v / 1000): the division raises TypeError for a non-number.
precisedelta_ms(v) ==
    IF IsIntOrFloat(v) THEN [raised |-> None, value |-> <<Fmt("precisedelta", v)>>]
    ELSE [raised |-> "TypeError", value |-> <<>>]

\* humanize.intcomma(v): a value it cannot read as a number comes back as str(v).
intcomma(v) ==
    IF IsIntOrFloat(v) THEN <<Fmt("intcomma", v)>> ELSE <<Fmt("str", v)>>

\* The labels of get_relevant_metrics in the order of the dict display, each with
\* the path of its source value.
Metrics ==
    << <<"Total Read IO", <<"read", "io_bytes">>>>,
       <<"Total Write IO", <<"write", "io_bytes">>>>,
       <<"Read Bandwidth", <<"read", "bw_bytes">>>>,
       <<"Write Bandwidth", <<"write", "bw_bytes">>>>,
       <<"Read IOPS", <<"read", "iops">>>>,
       <<"Write IOPS", <<"write", "iops">>>>,
       <<"Read Submission Latency", <<"read", "slat_ns", "mean">>>>,
       <<"Read Completion Latency", <<"read", "clat_ns", "mean">>>>,
       <<"Read Total Latency", <<"read", "lat_ns", "mean">>>>,
       <<"Write Submission Latency", <<"write", "slat_ns", "mean">>>>,
       <<"Write Completion Latency", <<"write", "clat_ns", "mean">>>>,
       <<"Write Total Latency", <<"write", "lat_ns", "mean">>>>,
       <<"Job Runtime", <<"job_runtime">>>>,
       <<"User CPU", <<"usr_cpu">>>>,
       <<"System CPU", <<"sys_cpu">>>>,
       <<"Context Switches", <<"ctx">>>>,
       <<"Read Latency (99.0 Percentiles)",
         <<"read", "clat_ns", "percentile", "99.000000">>>>,
       <<"Read Latency (99.9 Percentiles)",
         <<"read", "clat_ns", "percentile", "99.900000">>>>,
       <<"Write Latency (99.0 Percentiles)",
         <<"write", "clat_ns", "percentile", "99.000000">>>>,
       <<"Write Latency (99.9 Percentiles)",
         <<"write", "clat_ns", "percentile", "99.900000">>>> >>

\* The value expression of entry i of the dict display.
Metric(job, i) ==
    LET label == Metrics[i][1]
        path == Metrics[i][2]
    IN IF label \in {"Total Read IO", "Total Write IO"}
       THEN LET g == safe_get(job, path, NO_RESULT_STRING)
            IN IF g.raised # None THEN g
               ELSE [raised |-> None, value |-> humanize_bytes(g.value)]
       ELSE IF label \in {"Read Bandwidth", "Write Bandwidth"}
       THEN LET g == safe_get(job, path, NO_RESULT_STRING)
            IN IF g.raised # None THEN g
               ELSE [raised |-> None,
                     value |-> Plus(humanize_bytes(g.value), <<"/", "s">>)]
       ELSE IF label \in {"Read IOPS", "Write IOPS"}
       THEN LET g == safe_get(job, path, PyFloat(0, 1))
                f == format_f("_.2f", g.value)
            IN IF g.raised # None THEN g
               ELSE IF f.raised # None THEN f
               ELSE [raised |-> None, value |-> Plus(f.value, <<" ", "I", "O", "P", "S">>)]
       ELSE IF label = "Job Runtime"
       THEN LET g == safe_get(job, path, PyInt(0))
            IN IF g.raised # None THEN g ELSE precisedelta_ms(g.value)
       ELSE IF label \in {"User CPU", "System CPU"}
       THEN LET g == safe_get(job, path, PyFloat(0, 1))
                f == format_f(".2f", g.value)
            IN IF g.raised # None THEN g
               ELSE IF f.raised # None THEN f
               ELSE [raised |-> None, value |-> Plus(f.value, <<"%">>)]
       ELSE IF label = "Context Switches"
       THEN LET g == safe_get(job, path, PyInt(0))
            IN IF g.raised # None THEN g
               ELSE [raised |-> None, value |-> intcomma(g.value)]
       ELSE LET g == safe_get(job, path, NO_RESULT_STRING)
            IN IF g.raised # None THEN g
               ELSE [raised |-> None, value |-> humanize_time_ns(g.value)]

\* FioResult.get_relevant_metrics(job): the (label, string) pairs, or the exception
\* of the first entry whose expression raises.
get_relevant_metrics(job) ==
    LET m == [i \in DOMAIN Metrics |-> Metric(job, i)]
    IN IF \E i \in DOMAIN m : m[i].raised # None
       THEN [raised |-> m[CHOOSE i \in DOMAIN m :
                             /\ m[i].raised # None
                             /\ \A j \in 1 .. i - 1 : m[j].raised = None].raised,
             value |-> <<>>]
       ELSE [raised |-> None,
             value |-> [i \in DOMAIN Metrics |-> <<Metrics[i][1], m[i].value>>]]

\* The job records of a result: the "read" and the "write" entry are left out,
\* empty, without their nested entries, filled with texts, or complete; so are the
\* job's own counters.
StrLeaf == PyStr(<<"n", "/", "a">>)

ReadWrite(kind) ==
    IF kind = "empty" THEN PyDict(<<>>)
    ELSE IF kind = "shallow"
    THEN PyDict(<< <<"io_bytes", PyInt(4096)>>, <<"bw_bytes", PyInt(1024)>>,
                   <<"iops", PyFloat(125, 1)>>,
                   <<"clat_ns", PyDict(<< <<"mean", PyFloat(25, 2)>> >>)>> >>)
    ELSE IF kind = "strings"
    THEN PyDict(<< <<"io_bytes", StrLeaf>>, <<"bw_bytes", StrLeaf>>,
                   <<"iops", StrLeaf>>,
                   <<"slat_ns", PyDict(<< <<"mean", StrLeaf>> >>)>>,
                   <<"clat_ns", PyDict(<< <<"mean", StrLeaf>>,
                                          <<"percentile",
                                            PyDict(<< <<"99.000000", StrLeaf>>,
                                                      <<"99.900000", StrLeaf>> >>)>>
                                       >>)>>,
                   <<"lat_ns", PyDict(<< <<"mean", StrLeaf>> >>)>> >>)
    ELSE PyDict(<< <<"io_bytes", PyInt(4096)>>, <<"bw_bytes", PyInt(1024)>>,
                   <<"iops", PyFloat(125, 1)>>,
                   <<"slat_ns", PyDict(<< <<"mean", PyFloat(15, 1)>> >>)>>,
                   <<"clat_ns", PyDict(<< <<"mean", PyFloat(25, 2)>>,
                                          <<"percentile",
                                            PyDict(<< <<"99.000000", PyInt(300)>>,
                                                      <<"99.900000", PyInt(500)>> >>)>>
                                       >>)>>,
                   <<"lat_ns", PyDict(<< <<"mean", PyInt(40)>> >>)>> >>)

Counters(kind) ==
    IF kind = "absent" THEN <<>>
    ELSE IF kind = "strings"
    THEN << <<"job_runtime", StrLeaf>>, <<"usr_cpu", StrLeaf>>,
            <<"sys_cpu", StrLeaf>>, <<"ctx", StrLeaf>> >>
    ELSE << <<"job_runtime", PyInt(30000)>>, <<"usr_cpu", PyFloat(15, 1)>>,
            <<"sys_cpu", PyFloat(25, 2)>>, <<"ctx", PyInt(7)>> >>

RwKinds == {"absent", "empty", "shallow", "strings", "full"}
CounterKinds == {"absent", "strings", "full"}
JobNames == {<<"a">>, <<"b">>}

Job(name, read, write, counters) ==
    PyDict(<< <<"jobname", PyStr(name)>> >>
           \o (IF read = "absent" THEN <<>> ELSE << <<"read", ReadWrite(read)>> >>)
           \o (IF write = "absent" THEN <<>> ELSE << <<"write", ReadWrite(write)>> >>)
           \o Counters(counters))

\* The document of a fio run with these jobs.
ResultOf(jobs) ==
    PyDict(<< <<"fio version", PyStr(<<"f", "i", "o", "-", "3">>)>>,
              <<"jobs", PyList(jobs)>> >>)

Results ==
    {ResultOf(<<Job(<<"a">>, r, w, c)>>) :
        r \in RwKinds, w \in RwKinds, c \in CounterKinds}
    \cup {ResultOf(<<Job(n1, "full", "empty", "full"),
                    Job(n2, "shallow", "full", "absent")>>) :
            n1 \in JobNames, n2 \in JobNames}

(***************************************************************************)
(* json.dumps and json.loads. A JSON text is the sequence of its tokens:   *)
(* punctuation, string literals, number literals (their characters), and   *)
(* true, false, null.                                                      *)
(***************************************************************************)
RECURSIVE Pow10(_)
Pow10(d) == IF d = 0 THEN 1 ELSE 10 * Pow10(d - 1)

\* The decimal digits of n, at least `width` of them.
RECURSIVE DecimalDigits(_, _)
DecimalDigits(n, width) ==
    IF n < 10 /\ width <= 1 THEN <<Digits[n + 1]>>
    ELSE Append(DecimalDigits(n \div 10, width - 1), Digits[(n % 10) + 1])

\* int.__repr__ and float.__repr__
int_repr(v) == DecimalDigits(v[2], 1)

float_repr(v) ==
    DecimalDigits(v[2] \div Pow10(v[3]), 1) \o <<".">>
        \o DecimalDigits(v[2] % Pow10(v[3]), v[3])

\* A number written as a string literal.
number_token_quoted(v) ==
    <<"str", IF v[1] = "int" THEN int_repr(v) ELSE float_repr(v)>>

\* The literal json.dumps writes for an int or a float.
number_token(v) == <<"num", IF v[1] = "int" THEN int_repr(v) ELSE float_repr(v)>>

RECURSIVE json_dumps(_), dumps_members(_), dumps_elements(_)
\* json.dumps(v)
json_dumps(v) ==
    IF v[1] = "dict" THEN << <<"{">> >> \o dumps_members(v[2]) \o << <<"}">> >>
    ELSE IF v[1] = "list" THEN << <<"[">> >> \o dumps_elements(v[2]) \o << <<"]">> >>
    ELSE IF v[1] = "str" THEN << <<"str", v[2]>> >>
    ELSE IF v[1] \in {"int", "float"} THEN <<number_token(v)>>
    ELSE IF v[1] = "bool" THEN << <<IF v[2] THEN "true" ELSE "false">> >>
    ELSE << <<"null">> >>

dumps_members(pairs) ==
    IF pairs = <<>> THEN <<>>
    ELSE << <<"str", pairs[1][1]>>, <<":">> >> \o json_dumps(pairs[1][2])
            \o (IF Len(pairs) > 1 THEN << <<",">> >> \o dumps_members(Tail(pairs))
                ELSE <<>>)

dumps_elements(elems) ==
    IF elems = <<>> THEN <<>>
    ELSE json_dumps(elems[1])
            \o (IF Len(elems) > 1 THEN << <<",">> >> \o dumps_elements(Tail(elems))
                ELSE <<>>)

\* The float with the value n / 10^d.
RECURSIVE float_of(_, _)
float_of(n, d) == IF d > 1 /\ n % 10 = 0 THEN float_of(n \div 10, d - 1) ELSE PyFloat(n, d)

\* The number a number literal denotes: a float when it has a fraction.
parse_number(chars) ==
    IF \E i \in DOMAIN chars : chars[i] = "."
    THEN LET k == CHOOSE i \in DOMAIN chars : chars[i] = "."
             frac == SubSeq(chars, k + 1, Len(chars))
         IN float_of(DecimalValue(SubSeq(chars, 1, k - 1) \o frac), Len(frac))
    ELSE PyInt(DecimalValue(chars))

\* d[key] = v on the pairs of a dict: a key it has keeps its place.
dict_set(pairs, key, v) ==
    IF \E i \in DOMAIN pairs : pairs[i][1] = key
    THEN [i \in DOMAIN pairs |-> IF pairs[i][1] = key THEN <<key, v>> ELSE pairs[i]]
    ELSE Append(pairs, <<key, v>>)

RECURSIVE parse_value(_), parse_members(_, _), parse_elements(_, _)
\* The value at the head of the tokens, and the tokens after it.
parse_value(toks) ==
    LET t == Head(toks)
    IN IF t[1] = "{"
       THEN IF toks[2][1] = "}"
            THEN [value |-> PyDict(<<>>), rest |-> Tail(Tail(toks))]
            ELSE parse_members(Tail(toks), <<>>)
       ELSE IF t[1] = "["
       THEN IF toks[2][1] = "]"
            THEN [value |-> PyList(<<>>), rest |-> Tail(Tail(toks))]
            ELSE parse_elements(Tail(toks), <<>>)
       ELSE IF t[1] = "str" THEN [value |-> PyStr(t[2]), rest |-> Tail(toks)]
       ELSE IF t[1] = "num" THEN [value |-> parse_number(t[2]), rest |-> Tail(toks)]
       ELSE IF t[1] = "null" THEN [value |-> PyNone, rest |-> Tail(toks)]
       ELSE [value |-> <<"bool", t[1] = "true">>, rest |-> Tail(toks)]

parse_members(toks, pairs) ==
    LET v == parse_value(Tail(Tail(toks)))
        more == dict_set(pairs, toks[1][2], v.value)
    IN IF Head(v.rest)[1] = ","
       THEN parse_members(Tail(v.rest), more)
       ELSE [value |-> PyDict(more), rest |-> Tail(v.rest)]

parse_elements(toks, elems) ==
    LET v == parse_value(toks)
    IN IF Head(v.rest)[1] = ","
       THEN parse_elements(Tail(v.rest), Append(elems, v.value))
       ELSE [value |-> PyList(Append(elems, v.value)), rest |-> Tail(v.rest)]

\* json.loads(text): JSONDecodeError for a text that is empty.
json_loads(text) ==
    IF text = <<>> THEN [raised |-> "JSONDecodeError", value |-> PyNone]
    ELSE [raised |-> None, value |-> parse_value(text).value]

\* FioResult.get_jobs()
get_jobs(doc) == dict_get(doc, "jobs").value[2]

\* d[key]: KeyError when the dict has no such key.
dict_item(d, key) ==
    IF \E i \in DOMAIN d[2] : d[2][i][1] = key
    THEN [raised |-> None,
          value |-> d[2][CHOOSE i \in DOMAIN d[2] : d[2][i][1] = key][2]]
    ELSE [raised |-> "KeyError", value |-> PyNone]

\* A lookup that keeps the last entry with the name.
RECURSIVE get_job_last(_, _)
get_job_last(entries, job) ==
    IF entries = <<>> THEN [raised |-> "ValueError", value |-> PyNone]
    ELSE LET e == entries[Len(entries)]
         IN IF dict_item(e, "jobname").value = PyStr(job)
            THEN [raised |-> None, value |-> e]
            ELSE get_job_last(SubSeq(entries, 1, Len(entries) - 1), job)

\* FioResult.get_job(job) over the entries of self.result["jobs"]: the first entry
\* whose "jobname" is job, ValueError when the loop ends without one.
RECURSIVE get_job(_, _)
get_job(entries, job) ==
    IF entries = <<>> THEN [raised |-> "ValueError", value |-> PyNone]
    ELSE LET n == dict_item(Head(entries), "jobname")
         IN IF n.raised # None THEN n
            ELSE IF n.value = PyStr(job) THEN [raised |-> None, value |-> Head(entries)]
            ELSE get_job(Tail(entries), job)

\* The names asked for: those of the jobs and one that no job has.
LookupNames == JobNames \cup {<<"c">>}

NoResult ==
    [doc |-> PyNone, op |-> "none", job |-> 0, name |-> <<>>, raised |-> None,
     value |-> <<>>]

SystemUnchanged ==
    UNCHANGED <<store, wobj, queue, sent, inflight, done, coord, calls, now, last,
                redis_up>>

\* FioConfig(config_file) on a job file with the document doc.
FioConfig_init(doc) ==
    /\ config.op = "none"
    /\ config' = [NoConfig EXCEPT !.doc = doc, !.op = "__init__"]
    /\ SystemUnchanged /\ UNCHANGED <<result, fio, files, runs>>

\* config.get_config_value(section, key) on one of the job's sections.
FioConfig_get_config_value(section, key) ==
    /\ config.op # "none"
    /\ \E i \in DOMAIN get_sections(config.doc) : get_sections(config.doc)[i] = section
    /\ LET r == get_config_value(config.doc, section, key)
       IN config' = [config EXCEPT !.op = "get_config_value", !.section = section,
                                   !.key = key, !.raised = r.raised,
                                   !.value = r.value]
    /\ SystemUnchanged /\ UNCHANGED <<result, fio, files, runs>>

\* config.get_job_runtime()
FioConfig_get_job_runtime ==
    /\ config.op # "none"
    /\ LET r == get_job_runtime(config.doc)
       IN config' = [config EXCEPT !.op = "get_job_runtime", !.section = None,
                                   !.key = None, !.raised = r.raised,
                                   !.value = <<"dict", r.value>>]
    /\ SystemUnchanged /\ UNCHANGED <<result, fio, files, runs>>

\* config.print_job_runtime()
FioConfig_print_job_runtime ==
    /\ config.op # "none"
    /\ LET r == total_runtime(config.doc)
       IN config' = [config EXCEPT !.op = "print_job_runtime", !.section = None,
                                   !.key = None, !.raised = r.raised,
                                   !.value = PyInt(r.value)]
    /\ SystemUnchanged /\ UNCHANGED <<result, fio, files, runs>>

(***************************************************************************)
(* Fio: the executor, its temporary directory and its runs.                *)
(***************************************************************************)
FioObjs == {"f1", "f2"}
Dirs == {"d1", "d2"}
Threads == {"t1", "t2"}

\* config.get_contents(): the texts of the job files passed to run.
Contents == {"[job1] rw=read", "[job1] rw=write"}

\* What the fio process leaves: an exit status, and the texts on its standard
\* output and standard error. With status 0 the output is the JSON document.
ReturnCodes == {0, 1}
JsonOutputs ==
    {json_dumps(ResultOf(<<Job(<<"a">>, "empty", "absent", "full")>>)),
     json_dumps(ResultOf(<<Job(<<"b">>, "absent", "absent", "absent")>>))}
Stdouts == JsonOutputs \cup {<<>>}
Stderrs == {"", "fio: failed"}

NoFio == [st |-> "none", temp_dir |-> None]
NoDir == [exists |-> FALSE, conf |-> None]
NoProcess == [returncode |-> 0, stdout |-> <<>>, stderr |-> "", read |-> None]
NoError == [returncode |-> 0, output |-> <<>>, stderr |-> ""]
NoRun == [pc |-> "idle", on |-> None, contents |-> None, config_file |-> None,
          p |-> NoProcess, raised |-> None, error |-> NoError, result |-> PyNone]

\* A cleanup that leaves the directory where it is.
cleanup_nothing(fs, d) == fs

\* self.temp_dir.cleanup(): the directory and what it holds are removed.
cleanup(fs, d) == [fs EXCEPT ![d] = NoDir]

\* A run that does not look at the exit status.
run_raises_never(p) == None

\* What run raises once the process has ended.
run_raises(p) == IF p.returncode # 0 THEN "CalledProcessError" ELSE None

FioFrame == SystemUnchanged /\ UNCHANGED <<config, result>>

\* Fio(): tempfile.TemporaryDirectory() makes a directory under a name not in use.
Fio_init(o, d) ==
    /\ fio[o].st = "none"
    /\ ~files[d].exists
    /\ fio' = [fio EXCEPT ![o] = [st |-> "live", temp_dir |-> d]]
    /\ files' = [files EXCEPT ![d] = [exists |-> TRUE, conf |-> None]]
    /\ UNCHANGED runs
    /\ FioFrame

\* Thread t enters fio.run(config, data_mount) on object o: __dump_conf writes the
\* contents of the job file to <temp_dir>/fio.ini.
Fio_dump_conf(t, o, c) ==
    /\ runs[t].pc \in {"idle", "done"}
    /\ fio[o].st = "live"
    /\ files' = [files EXCEPT ![fio[o].temp_dir].conf = c]
    /\ runs' = [runs EXCEPT ![t] = [NoRun EXCEPT !.pc = "dumped", !.on = o,
                                                  !.contents = c,
                                                  !.config_file = fio[o].temp_dir]]
    /\ UNCHANGED fio
    /\ FioFrame

\* __exec_fio: the fio process reads the file at config_file and ends.
Fio_exec_fio(t, returncode, stdout, stderr) ==
    /\ runs[t].pc = "dumped"
    /\ returncode = 0 => stdout \in JsonOutputs
    /\ runs' = [runs EXCEPT ![t].pc = "executed",
                            ![t].p = [returncode |-> returncode, stdout |-> stdout,
                                      stderr |-> stderr,
                                      read |-> files[runs[t].config_file].conf]]
    /\ UNCHANGED <<fio, files>>
    /\ FioFrame

\* The rest of run: CalledProcessError for a non-zero status, else
\* FioResult(json.loads(p.stdout)).
Fio_run_return(t) ==
    /\ runs[t].pc = "executed"
    /\ LET p == runs[t].p
       IN IF run_raises(p) # None
          THEN runs' = [runs EXCEPT ![t].pc = "done",
                                    ![t].raised = run_raises(p),
                                    ![t].error = [returncode |-> p.returncode,
                                                  output |-> p.stdout,
                                                  stderr |-> p.stderr]]
          ELSE runs' = [runs EXCEPT ![t].pc = "done",
                                    ![t].raised = json_loads(p.stdout).raised,
                                    ![t].result = json_loads(p.stdout).value]
    /\ UNCHANGED <<fio, files>>
    /\ FioFrame

\* Fio.__del__: runs once nothing refers to the object, so not during a run on it.
Fio_del(o) ==
    /\ fio[o].st = "live"
    /\ \A t \in Threads : runs[t].on = o => runs[t].pc \notin {"dumped", "executed"}
    /\ files' = cleanup(files, fio[o].temp_dir)
    /\ fio' = [fio EXCEPT ![o].st = "deleted"]
    /\ UNCHANGED runs
    /\ FioFrame

\* FioResult(result) on a parsed document.
FioResult_init(doc) ==
    /\ result.op = "none"
    /\ result' = [NoResult EXCEPT !.doc = doc, !.op = "__init__"]
    /\ SystemUnchanged /\ UNCHANGED <<config, fio, files, runs>>

\* result.get_relevant_metrics(job) on the i-th job of the result.
FioResult_get_relevant_metrics(i) ==
    /\ result.op # "none"
    /\ i \in DOMAIN get_jobs(result.doc)
    /\ LET r == get_relevant_metrics(get_jobs(result.doc)[i])
       IN result' = [result EXCEPT !.op = "get_relevant_metrics", !.job = i,
                                   !.raised = r.raised, !.value = r.value]
    /\ SystemUnchanged /\ UNCHANGED <<config, fio, files, runs>>

\* result.get_job(name)
FioResult_get_job(name) ==
    /\ result.op # "none"
    /\ LET r == get_job(get_jobs(result.doc), name)
       IN result' = [result EXCEPT !.op = "get_job", !.job = 0, !.name = name,
                                   !.raised = r.raised, !.value = r.value]
    /\ SystemUnchanged /\ UNCHANGED <<config, fio, files, runs>>

\* result.get_json()
FioResult_get_json ==
    /\ result.op # "none"
    /\ result' = [result EXCEPT !.op = "get_json", !.job = 0, !.raised = None,
                                !.value = json_dumps(result.doc)]
    /\ SystemUnchanged /\ UNCHANGED <<config, fio, files, runs>>

\* result.export_json(path): the text json.dump writes to the file.
FioResult_export_json ==
    /\ result.op # "none"
    /\ result' = [result EXCEPT !.op = "export_json", !.job = 0, !.raised = None,
                                !.value = json_dumps(result.doc)]
    /\ SystemUnchanged /\ UNCHANGED <<config, fio, files, runs>>

Init ==
    /\ store = [k \in StoreKeys |-> {}]
    /\ wobj = [p \in Procs |-> NewWorker]
    /\ queue = [q \in Ids |-> <<>>]
    /\ sent = 0
    /\ inflight = [p \in Procs |-> {}]
    /\ done = {}
    /\ coord = NewCoordinator
    /\ redis_up = TRUE
    /\ config = NoConfig
    /\ result = NoResult
    /\ fio = [o \in FioObjs |-> NoFio]
    /\ files = [d \in Dirs |-> NoDir]
    /\ runs = [t \in Threads |-> NoRun]
    /\ calls = <<>>
    /\ now = 0
    /\ last = NoOp

NextRegistry ==
    \/ \E p \in Procs : WorkerInit(p)
    \/ \E p \in Procs, g \in Groups, w \in Ids : register_worker(p, g, w)
    \/ \E p \in Procs : Worker_del(p)
    \/ \E p \in Procs : WorkerKilled(p)

NextWorker ==
    \/ \E p \in Procs, g \in Groups, w \in Ids : register_worker(p, g, w)
    \/ \E p \in Procs : start_worker(p)
    \/ \E q \in Ids : BrokerPublish(q)
    \/ \E p \in Procs : WorkerFetch(p)
    \/ \E p \in Procs : \E m \in inflight[p] : run_benchmark(p, m)
    \/ \E p \in Procs : Worker_del(p)

NextCoordinator ==
    \/ \E p \in Procs, g \in Groups, w \in Ids : register_worker(p, g, w)
    \/ \E gs \in GroupLists : set_worker_groups(gs)
    \/ \E f \in Filenames : set_filename(f)
    \/ TriggerCall
    \/ Coordinator_run
    \/ run_pending
    \/ Tick

\* Triggering on demand while the registry server comes and goes.
NextLookup ==
    \/ \E p \in Procs, g \in Groups, w \in Ids : register_worker(p, g, w)
    \/ \E gs \in GroupLists : set_worker_groups(gs)
    \/ \E f \in Filenames : set_filename(f)
    \/ TriggerCall
    \/ RedisOutage
    \/ RedisRecovery

\* Registering and starting workers up to and during an outage of the registry
\* server.
NextStart ==
    \/ \E p \in Procs, g \in Groups, w \in Ids : register_worker(p, g, w)
    \/ \E p \in Procs : start_worker(p)
    \/ \E q \in Ids : BrokerPublish(q)
    \/ \E p \in Procs : WorkerFetch(p)
    \/ RedisOutage

\* The worker process that serves the waves triggered on demand.
WaveProcs == {"p1"}

\* Waves triggered on demand over a worker that registers, serves and may be killed.
NextWave ==
    \/ \E p \in WaveProcs, g \in Groups, w \in Ids : register_worker(p, g, w)
    \/ \E p \in WaveProcs : start_worker(p)
    \/ \E p \in WaveProcs : WorkerKilled(p)
    \/ \E q \in Ids : BrokerPublish(q)
    \/ \E p \in WaveProcs : WorkerFetch(p)
    \/ \E p \in WaveProcs : \E m \in inflight[p] : run_benchmark(p, m)
    \/ \E gs \in GroupLists : set_worker_groups(gs)
    \/ \E f \in Filenames : set_filename(f)
    \/ TriggerCall

\* Reading a job file.
NextConfig ==
    \/ \E doc \in Documents : FioConfig_init(doc)
    \/ \E section \in {"job1", "job2"}, key \in ConfigKeys :
          FioConfig_get_config_value(section, key)
    \/ FioConfig_get_job_runtime
    \/ FioConfig_print_job_runtime

\* Reading a result.
NextResult ==
    \/ \E doc \in Results : FioResult_init(doc)
    \/ \E i \in 1 .. 2 : FioResult_get_relevant_metrics(i)
    \/ \E name \in LookupNames : FioResult_get_job(name)
    \/ FioResult_get_json
    \/ FioResult_export_json

\* Running fio.
NextFio ==
    \/ \E o \in FioObjs, d \in Dirs : Fio_init(o, d)
    \/ \E t \in Threads, o \in FioObjs, c \in Contents : Fio_dump_conf(t, o, c)
    \/ \E t \in Threads, returncode \in ReturnCodes, stdout \in Stdouts,
          stderr \in Stderrs : Fio_exec_fio(t, returncode, stdout, stderr)
    \/ \E t \in Threads : Fio_run_return(t)
    \/ \E o \in FioObjs : Fio_del(o)

Next ==
    \/ NextRegistry \/ NextWorker \/ NextCoordinator \/ NextLookup \/ NextStart
    \/ NextWave \/ NextConfig \/ NextResult \/ NextFio

SpecRegistry == Init /\ [][NextRegistry]_vars

SpecWorker == Init /\ [][NextWorker]_vars

SpecCoordinator == Init /\ [][NextCoordinator]_vars

SpecLookup == Init /\ [][NextLookup]_vars

SpecStart == Init /\ [][NextStart]_vars

\* A serving worker's pool keeps taking messages and finishing tasks.
FairWorkers ==
    \A p \in WaveProcs :
        /\ WF_vars(WorkerFetch(p))
        /\ WF_vars(\E m \in inflight[p] : run_benchmark(p, m))

SpecWave == Init /\ [][NextWave]_vars /\ FairWorkers

SpecConfig == Init /\ [][NextConfig]_vars

SpecResult == Init /\ [][NextResult]_vars

SpecFio == Init /\ [][NextFio]_vars

\* The whole system. The properties below are checked under the specification of
\* the component they are about.
Spec == Init /\ [][Next]_vars

(***************************************************************************)
(* Properties.                                                             *)
(***************************************************************************)
Triggered == last.op \in {"trigger_benchmark", "run_pending"}

\* C1: once a worker that registered (g, w) has run its unregistration
\* (Worker.__del__), w is not a member of the set the coordinator reads for g.
C1_UnregisterRemoves ==
    (last.op = "__del__" /\ last.group # None)
        => Encode(last.id) \notin get_workers(store, last.group)

\* C2: a trigger_benchmark() on a configured coordinator builds, for every
\* configured group and every id in that group's registry snapshot, exactly one
\* task, queued under that id, and no task under a name outside the snapshot.
C2_OneTaskPerWorker ==
    (Triggered /\ last.call.configured) =>
        /\ \A i \in DOMAIN last.call.snapshot : \A b \in last.call.snapshot[i] :
              /\ i \in DOMAIN last.call.groups
              /\ Cardinality({sig \in last.call.groups[i] : sig.queue = Decode(b)}) = 1
        /\ \A i \in DOMAIN last.call.groups : \A sig \in last.call.groups[i] :
              Encode(sig.queue) \in last.call.snapshot[i]

\* C5: a worker process never has more than one benchmark task in flight.
C5_OneInFlight == \A p \in Procs : Cardinality(inflight[p]) <= 1

\* C6: a trigger_benchmark() on a configured coordinator with a group whose
\* registry set is empty builds no task for that group and raises no error.
C6_EmptyGroupNoError ==
    (/\ Triggered
     /\ last.call.configured
     /\ \E i \in DOMAIN last.call.snapshot : last.call.snapshot[i] = {})
        => /\ last.raised = None
           /\ \A i \in DOMAIN last.call.groups :
                 last.call.snapshot[i] = {} => last.call.groups[i] = {}

\* C7: once run() is looping it keeps looping: no failure of a triggered wave
\* makes run() return.
C7_RunSurvives == [][coord.run = "looping" => coord'.run = "looping"]_vars

\* C8: two distinct trigger_benchmark() invocations have different wave ids, the
\* wave id of an invocation is the one on every task it builds, and every task the
\* coordinator builds for one wave id carries that wave id.
C8_WaveIds ==
    /\ \A i, j \in DOMAIN calls : i # j => calls[i].wave_id # calls[j].wave_id
    /\ Triggered =>
          /\ last.call.wave_id = calls[Len(calls)].wave_id
          /\ \A i \in DOMAIN last.call.groups : \A sig \in last.call.groups[i] :
                sig.wave_id = last.call.wave_id
    /\ coord.worker_groups # Unset =>
          \A w \in 1 .. MaxTriggers :
              LET groups == FanOutGroups(coord, store, w, now)
              IN \A i \in DOMAIN groups : \A sig \in groups[i] : sig.wave_id = w

\* Two invocations have been made, the second with a registered worker in a
\* configured group.
C8_Witness ==
    /\ Len(calls) = 2
    /\ Triggered
    /\ \E i \in DOMAIN last.call.snapshot : last.call.snapshot[i] # {}

\* C9: a registered id is a member of the set read for its group, and an id
\* leaves the set read for a group only by an unregistration of that (group, id).
C9_MemberUntilUnregistered ==
    [][/\ last'.op = "register_worker"
            => Encode(last'.id) \in get_workers(store', last'.group)
       /\ \A g \in Groups, w \in Ids :
            (Encode(w) \in get_workers(store, g) /\ Encode(w) \notin get_workers(store', g))
                => (last'.op = "__del__" /\ last'.group = g /\ last'.id = w)]_vars

\* C10: registering a (group, id) that is already a member raises no error and
\* leaves every registry set as it was.
C10_RegisterIdempotent ==
    [][(/\ last'.op = "register_worker"
        /\ Encode(last'.id) \in get_workers(store, last'.group))
            => (store' = store /\ last'.raised = None)]_vars

\* Two worker processes have registered the same (group, id), beside another
\* member of the group.
C10_Witness ==
    /\ last.op = "register_worker"
    /\ wobj["p1"].st = "registered" /\ wobj["p2"].st = "registered"
    /\ wobj["p1"].worker_group = wobj["p2"].worker_group
    /\ wobj["p1"].worker_id = wobj["p2"].worker_id
    /\ Cardinality(get_workers(store, last.group)) = 2

\* C11: unregistering an id that is not in its group (a worker that never
\* registered, or an id the group no longer holds) raises no error and leaves the
\* membership of that group as it was.
C11_UnregisterAbsent ==
    [][(/\ last'.op = "__del__"
        /\ \/ last'.group = None
           \/ Encode(last'.id) \notin get_workers(store, last'.group))
            => /\ last'.raised = None
               /\ IF last'.group = None THEN store' = store
                  ELSE get_workers(store', last'.group) = get_workers(store, last'.group)]_vars

\* A registered worker is finalized when its group does not hold its id.
C11_Witness ==
    /\ last.op = "__del__"
    /\ last.group # None
    /\ Encode(last.id) \notin get_workers(store, last.group)

\* C12: a trigger whose registry lookup fails because the store is unreachable is
\* not treated as a trigger over groups without workers: it raises an error, that
\* error differs from the outcome of every trigger that found the store reachable
\* and all its groups empty, and it dispatches no task.
C12_LookupFailureSurfaced ==
    /\ \A i \in DOMAIN calls :
          (calls[i].configured /\ ~calls[i].up)
              => /\ calls[i].raised # None
                 /\ \A j \in DOMAIN calls :
                       (calls[j].configured /\ calls[j].up /\ calls[j].empty)
                           => calls[j].raised # calls[i].raised
    /\ (Triggered /\ last.call.configured /\ ~last.call.up) => last.call.groups = <<>>

\* C13: a start attempted on a worker whose id has not been assigned raises
\* ValueError and binds no queue; a serving worker has an id and a group that
\* register_worker assigned, and only a serving worker consumes a task. (The
\* registry write of that register_worker call may have failed.)
C13_ServeAfterAssignment ==
    [][/\ (last'.op = "start_worker" /\ last'.id = None)
            => /\ last'.raised = "ValueError"
               /\ wobj' = wobj
               /\ inflight' = inflight
       /\ \A p \in Procs :
            /\ wobj'[p].st = "serving"
                  => wobj'[p].worker_id # None /\ wobj'[p].worker_group # None
            /\ inflight'[p] # inflight[p] /\ inflight'[p] # {}
                  => wobj[p].st = "serving"]_vars

\* One start was refused for want of an identity while a worker that went through
\* register_worker has consumed a task.
C13_Witness ==
    /\ last.op = "start_worker"
    /\ last.raised = "ValueError"
    /\ \E p \in Procs : wobj[p].st = "serving" /\ inflight[p] # {}

\* C13 as stated: a start before the identity is assigned raises ValueError and
\* binds no queue, and a worker serves or consumes a task only after a
\* register_worker call on it has succeeded.
C13_ServeOnlyRegistered ==
    [][/\ (last'.op = "start_worker" /\ last'.id = None)
            => /\ last'.raised = "ValueError"
               /\ wobj' = wobj
               /\ inflight' = inflight
       /\ \A p \in Procs :
            (wobj'[p].st = "serving" \/ inflight'[p] # {}) => wobj'[p].reg]_vars

\* Whether section `name` of the document has the key, and the value it gives it.
Defines(doc, name, key) ==
    \E i \in DOMAIN doc :
        doc[i].name = name /\ \E j \in DOMAIN doc[i].items : doc[i].items[j][1] = key

OwnValue(doc, name, key) ==
    LET items == doc[CHOOSE i \in DOMAIN doc : doc[i].name = name].items
    IN items[CHOOSE j \in DOMAIN items : items[j][1] = key][2]

\* The value the job file gives to a key of a section: the section's own, else the
\* global one, else None.
Resolved(doc, section, key) ==
    IF Defines(doc, section, key) THEN OwnValue(doc, section, key)
    ELSE IF Defines(doc, "global", key) THEN OwnValue(doc, "global", key)
    ELSE PyNone

\* C14: get_config_value(section, key) raises nothing and returns the section's own
\* value when the section defines the key, else the global value, else None, also
\* for a document without a [global] section.
C14_ValueResolution ==
    config.op = "get_config_value"
        => /\ config.raised = None
           /\ config.value = Resolved(config.doc, config.section, config.key)

\* Whether a resolved value is a number of seconds, and the seconds it counts for
\* (0 when it is absent or not a number).
IsNumeric(v) == v # PyNone /\ v[2] # <<>> /\ \A i \in DOMAIN v[2] : IsDigit(v[2][i])

Seconds(v) == IF IsNumeric(v) THEN DecimalValue(v[2]) ELSE 0

EstimatedRuntime(doc, section) ==
    Seconds(Resolved(doc, section, "ramp_time"))
        + Seconds(Resolved(doc, section, "runtime"))

EstimatedRuntimes(doc) ==
    [i \in DOMAIN get_sections(doc) |->
        <<get_sections(doc)[i], EstimatedRuntime(doc, get_sections(doc)[i])>>]

\* The documents whose resolved ramp_time and runtime are all numbers or absent.
AllNumeric(doc) ==
    \A i \in DOMAIN get_sections(doc) : \A key \in ConfigKeys :
        LET v == Resolved(doc, get_sections(doc)[i], key)
        IN v = PyNone \/ IsNumeric(v)

\* C15: for a job file whose ramp_time and runtime values are numbers,
\* get_job_runtime gives every non-global section its resolved ramp_time plus its
\* resolved runtime (0 for a key absent from the section and from global), and the
\* total printed is the sum over these sections.
C15_EstimatedRuntime ==
    AllNumeric(config.doc)
        => /\ config.op = "get_job_runtime"
                => /\ config.raised = None
                   /\ config.value = <<"dict", EstimatedRuntimes(config.doc)>>
           /\ config.op = "print_job_runtime"
                => /\ config.raised = None
                   /\ config.value =
                        PyInt(sum([i \in DOMAIN get_sections(config.doc) |->
                                     EstimatedRuntimes(config.doc)[i][2]]))

HasGlobal(doc) == \E i \in DOMAIN doc : doc[i].name = "global"

\* C16: for a job file (with a [global] section) in which a resolved ramp_time or
\* runtime is not a number, get_job_runtime raises nothing and still returns
\* integers, the non-numeric value counting as 0.
C16_NonNumericIsZero ==
    (/\ config.op = "get_job_runtime"
     /\ HasGlobal(config.doc)
     /\ ~AllNumeric(config.doc))
        => /\ config.raised = None
           /\ config.value = <<"dict", EstimatedRuntimes(config.doc)>>

\* The source value of a metric in a job record: what the path leads to, None when
\* a key on the path is missing.
RECURSIVE Source(_, _)
Source(d, path) ==
    IF path = <<>> THEN d
    ELSE IF d[1] = "dict" /\ \E i \in DOMAIN d[2] : d[2][i][1] = Head(path)
    THEN Source(d[2][CHOOSE i \in DOMAIN d[2] : d[2][i][1] = Head(path)][2], Tail(path))
    ELSE PyNone

\* C18: get_relevant_metrics(job) raises nothing and gives "---" for every metric
\* whose source value is missing from the job record or is not a number.
C18_SentinelForMissing ==
    result.op = "get_relevant_metrics"
        => /\ result.raised = None
           /\ \A i \in DOMAIN Metrics :
                LET v == Source(get_jobs(result.doc)[result.job], Metrics[i][2])
                IN v[1] \notin {"int", "float"}
                      => result.value[i] = <<Metrics[i][1], <<NO_RESULT_STRING>>>>

\* C20: the text that get_json returns or export_json writes parses back to a
\* document equal to the result it was made from, with the same jobs in the same
\* order and the same values.
C20_ExportRoundTrip ==
    result.op \in {"get_json", "export_json"}
        => /\ result.raised = None
           /\ json_loads(result.value).raised = None
           /\ json_loads(result.value).value = result.doc

\* A result of two jobs has been exported.
C20_Witness ==
    /\ result.op = "export_json"
    /\ Len(get_jobs(result.doc)) = 2
    /\ result.value # <<>>

\* C17: a run whose process ended with a non-zero status has raised
\* CalledProcessError carrying the status, the standard output and the standard
\* error, and has built no result; a run whose process ended with status 0 has
\* returned the result parsed from the standard output.
C17_ExitStatusDecides ==
    \A t \in Threads :
        runs[t].pc = "done"
            => IF runs[t].p.returncode # 0
               THEN /\ runs[t].raised = "CalledProcessError"
                    /\ runs[t].error = [returncode |-> runs[t].p.returncode,
                                        output |-> runs[t].p.stdout,
                                        stderr |-> runs[t].p.stderr]
                    /\ runs[t].result = PyNone
               ELSE /\ runs[t].raised = None
                    /\ runs[t].result = parse_value(runs[t].p.stdout).value

\* One run has ended on a non-zero status with a JSON document on its standard
\* output, another on status 0.
C17_Witness ==
    \E t, u \in Threads :
        /\ runs[t].pc = "done" /\ runs[t].p.returncode # 0
        /\ runs[t].p.stdout \in JsonOutputs
        /\ runs[u].pc = "done" /\ runs[u].p.returncode = 0

\* C19: the temporary directory and the config file in it are removed when the
\* executor object is finalized (Fio.__del__), after runs that succeeded and runs
\* that failed alike; when run returns or raises they still exist.
C19_ReleasedAtFinalization ==
    [][/\ \A o \in FioObjs :
            (fio[o].st = "live" /\ fio'[o].st = "deleted")
                => files'[fio[o].temp_dir] = NoDir
       /\ \A t \in Threads :
            (runs[t].pc = "executed" /\ runs'[t].pc = "done")
                => /\ files'[runs[t].config_file].exists
                   /\ files'[runs[t].config_file].conf # None]_vars

\* An executor has been finalized after a run that succeeded and a run that failed.
C19_Witness ==
    \E o \in FioObjs, t, u \in Threads :
        /\ fio[o].st = "deleted"
        /\ files[fio[o].temp_dir] = NoDir
        /\ runs[t].pc = "done" /\ runs[t].on = o /\ runs[t].raised = None
        /\ runs[u].pc = "done" /\ runs[u].on = o /\ runs[u].raised # None

\* C19 as stated: when run returns or raises, the config file it wrote and the
\* directory of that file no longer exist.
C19_ReleasedWhenRunFinishes ==
    [][\A t \in Threads :
          (runs[t].pc = "executed" /\ runs'[t].pc = "done")
              => ~files'[runs[t].config_file].exists]_vars

\* The places of the jobs with a name in a result.
JobsNamed(doc, name) ==
    {i \in DOMAIN get_jobs(doc) : Source(get_jobs(doc)[i], <<"jobname">>) = PyStr(name)}

\* C21: get_job(name) returns the first record of the result whose job name is name,
\* and raises ValueError, returning no record, when no job has that name.
C21_JobByName ==
    result.op = "get_job"
        => IF JobsNamed(result.doc, result.name) # {}
           THEN /\ result.raised = None
                /\ \E i \in JobsNamed(result.doc, result.name) :
                      /\ \A j \in JobsNamed(result.doc, result.name) : i <= j
                      /\ result.value = get_jobs(result.doc)[i]
           ELSE /\ result.raised = "ValueError"
                /\ result.value = PyNone

\* A name that two different records share has been looked up.
C21_Witness ==
    /\ result.op = "get_job"
    /\ \E i, j \in JobsNamed(result.doc, result.name) :
          get_jobs(result.doc)[i] # get_jobs(result.doc)[j]

\* C22: a register_worker or an unregistration (Worker.__del__) of a worker with
\* group g and id w changes at most the membership of w in the set of g: for every
\* other id and for every other key of the store, also the key that is g with a
\* prefix, membership is as before.
C22_OwnMembershipOnly ==
    [][last'.op \in {"register_worker", "__del__"}
          => \A k \in StoreKeys, w \in Ids :
                (k # last'.group \/ w # last'.id)
                    => (Encode(w) \in SMembers(store', k)
                            <=> Encode(w) \in SMembers(store, k))]_vars

\* The tasks of a wave that the broker or a worker holds, and those that ended.
WavePending(wave_id) ==
    {m \in UNION {{queue[q][i] : i \in DOMAIN queue[q]} : q \in Ids}
             \cup UNION {inflight[p] : p \in Procs} : m.wave_id = wave_id}

WaveEnded(wave_id) == {d \in done : d.msg.wave_id = wave_id}

\* C24: a wave triggered on a configured coordinator while a configured group has
\* members eventually finishes: its tasks have been dispatched and each of them has
\* completed or failed, none is left pending.
C24_WaveFinishes ==
    \A n \in 1 .. MaxTriggers :
        (Len(calls) >= n /\ calls[n].configured /\ calls[n].up /\ ~calls[n].empty)
            ~> (/\ Len(calls) >= n
                /\ WaveEnded(calls[n].wave_id) # {}
                /\ WavePending(calls[n].wave_id) = {})

\* C25: the configuration file that the fio process of an execution reads holds the
\* contents passed to that execution, also when executions overlap in time, on
\* different executor objects or on the same one.
C25_OwnConfigRead ==
    \A t \in Threads :
        runs[t].pc \in {"executed", "done"} => runs[t].p.read = runs[t].contents

\* C26: run() on a coordinator whose group list or filename has not been set is
\* rejected at start: the schedule is installed and the loop entered only on a
\* coordinator with both set, and a trigger_benchmark() on a coordinator without
\* them raises before any registry set is read and any task is dispatched.
C26_RefusesUnconfigured ==
    /\ coord.run = "looping"
           => (coord.worker_groups # Unset /\ coord.filename # None)
    /\ (Triggered /\ ~last.call.configured)
           => (last.raised # None /\ last.call.groups = <<>>)

\* C27: last_wave_id is None as long as trigger_benchmark() has not been called;
\* after a call that dispatches tasks it is the wave id of that call, which every
\* task dispatched in the call carries; and a call that raises without having
\* dispatched a task leaves last_wave_id as it was before the call.
C27_LastWaveId ==
    /\ [](calls = <<>> => coord.last_wave_id = NoWave)
    /\ [][/\ (Triggered' /\ last'.call.groups # <<>>)
                => /\ coord'.last_wave_id = last'.call.wave_id
                   /\ \A i \in DOMAIN last'.call.groups :
                         \A sig \in last'.call.groups[i] :
                             sig.wave_id = coord'.last_wave_id
          /\ (Triggered' /\ last'.raised # None /\ last'.call.groups = <<>>)
                => coord'.last_wave_id = coord.last_wave_id]_vars

\* A second call on a configured coordinator with a registered worker has raised,
\* and last_wave_id is still None.
C27_Witness ==
    /\ Triggered
    /\ Len(calls) = 2
    /\ last.raised # None
    /\ last.call.configured
    /\ \E i \in DOMAIN last.call.snapshot : last.call.snapshot[i] # {}
    /\ coord.last_wave_id = NoWave
====
